---- MODULE Spec2Model ----
(***************************************************************************)
(* Session lifecycle and matchmaking coordinator of server.js (the         *)
(* SessionManager / GameSession classes and the "find", "getScore" and     *)
(* "disconnect" socket handlers).  Every handler runs to completion on the *)
(* single event loop, so each handler is one atomic action.                *)
(***************************************************************************)
EXTENDS Integers, Sequences, FiniteSets, TLC

\* ---------------------------------------------------------------- constants
MAX_SESSIONS == 100
PLAYERS_PER_SESSION == 4
SESSION_TIMEOUT == 5 * 60 * 1000

\* ------------------------------------------------------------------- bounds
MaxSockets == 2      \* connections accepted during a run
MaxCreated == 2      \* sessions constructed during a run
MaxTicks == 1        \* advances of the clock during a run
MaxJoins == 5        \* "find" events with a valid name handled during a run
MaxSubmits == 5      \* "getScore" events that resolve to a session during a run

\* ------------------------------------------------------------------- inputs
\* data.name of a "find" event is a JavaScript value, tagged with its typeof.
\* A client plays under one name: odd sockets are "A", even sockets are "B".
NameOf(sock) == [ type |-> "string", str |-> IF sock % 2 = 1 THEN "A" ELSE "B" ]
BadNames == { [ type |-> "string", str |-> "" ], [ type |-> "number", str |-> "7" ] }
NameInputs(sock) == { NameOf(sock) } \cup BadNames
\* name and score carried by a "getScore" event
ScoreNames == {"A"}
ScoreValues == {10}
\* data.sessionId carried by a "getScore" event (one past the largest index)
SessionIds == 0 .. MaxCreated
\* amounts by which the clock advances between two events
TickSteps == {SESSION_TIMEOUT, SESSION_TIMEOUT + 1}

VARIABLES
    sessions,     \* sessionManager.sessions: the array of GameSession objects
    now,          \* Date.now()
    connected,    \* socket ids of the open connections
    nextSocket,   \* sockets accepted so far (socket ids are 1..nextSocket)
    nextUid,      \* GameSession objects constructed so far, plus one
    ticks,        \* clock advances so far
    joins,        \* "find" events with a valid name so far
    submits,      \* "getScore" events that resolved to a session so far
    findCount,    \* per session object: "find" broadcasts emitted for it
    scoreCount,   \* per session object: "getScore" broadcasts emitted for it
    announced,    \* pairs <<sessionId, uid>> sent in a "find" broadcast
    scored,       \* sessionIds sent in a "getScore" broadcast
    swept,        \* the sessions the periodic cleanup has removed
    last          \* the event handled last and what it emitted

vars == << sessions, now, connected, nextSocket, nextUid, ticks, joins, submits,
           findCount, scoreCount, announced, scored, swept, last >>

\* ---------------------------------------------------------------- helpers
RemoveAt(seq, i) == [ j \in 1 .. (Len(seq) - 1) |-> IF j < i THEN seq[j] ELSE seq[j + 1] ]

ReplaceAt(seq, i, x) == [ seq EXCEPT ![i] = x ]

\* Array.prototype.findIndex / find / indexOf return the first match: the least
\* of the matching indexes, 0 if there is none
FirstIndex(matching) ==
    IF matching = {} THEN 0
    ELSE CHOOSE i \in matching : \A j \in matching : i <= j

\* the objects (by identity) held by the sessions array
LiveUids(ss) == { ss[i].uid : i \in DOMAIN ss }

\* sessions.indexOf(session), 1-based; 0 stands for JavaScript's -1
indexOf(ss, uid) == FirstIndex({ i \in DOMAIN ss : ss[i].uid = uid })

\* ------------------------------------------------------------ GameSession
GameSession(uid, t) ==
    [ uid |-> uid,
      players |-> << >>,
      playersScore |-> << >>,
      disconnectedPlayersCount |-> 0,
      createdAt |-> t ]

\* addPlayer: the session after the push, or an error
addPlayer(s, player) ==
    IF Len(s.players) >= PLAYERS_PER_SESSION
    THEN [ error |-> "Session is full", session |-> s ]
    ELSE [ error |-> "", session |-> [ s EXCEPT !.players = Append(@, player) ] ]

isExpired(s, t) == t - s.createdAt > SESSION_TIMEOUT

\* --------------------------------------------------------- SessionManager
\* cleanup with the result of filter() dropped instead of assigned
cleanupNoAssign(ss, t) == ss

cleanup(ss, t) == SelectSeq(ss, LAMBDA s : ~isExpired(s, t))

\* createSession with the limit test off by one (> for >=)
createSessionOverCap(ss, uid, t) ==
    IF Len(ss) > MAX_SESSIONS
    THEN [ error |-> "Maximum sessions limit reached", sessions |-> ss ]
    ELSE [ error |-> "", sessions |-> Append(ss, GameSession(uid, t)) ]

createSession(ss, uid, t) ==
    IF Len(ss) >= MAX_SESSIONS
    THEN [ error |-> "Maximum sessions limit reached", sessions |-> ss ]
    ELSE [ error |-> "", sessions |-> Append(ss, GameSession(uid, t)) ]

\* the event record kept in last
\*   op        the handler that ran
\*   uid       the session object it worked on (0: none)
\*   emit      what it emitted: "find" / "getScore" (io.emit), "error" (socket.emit)
\*   id        the sessionId of the event or of the broadcast (-1: none)
\*   scores    the scores of a "getScore" broadcast
\*   players   the players of the session a "getScore" broadcast is about
\*   status    the outcome of a "getScore" handler; ack: what its callback received
\*   wasFull   the session had PLAYERS_PER_SESSION players when the handler started
\*   wasScored the sessionId had been sent in a "getScore" broadcast before
\*   len       playersScore.length after the handler's push (0: no push)
\*   removed   the sessions the handler removed: uid, players.length and age
\*   invalid   the data.name of a "find" event was one of BadNames
\*   touched   the session objects the handler created, changed or removed
NoEvent ==
    [ op |-> "init", uid |-> 0, emit |-> "none", id |-> -1,
      scores |-> << >>, players |-> << >>, status |-> "none", ack |-> "none",
      wasFull |-> FALSE, wasScored |-> FALSE, len |-> 0, removed |-> {},
      invalid |-> FALSE, touched |-> {} ]

\* the sessions of before that are missing in after
Removed(before, after, t) ==
    LET kept == LiveUids(after)
    IN  { [ uid |-> before[i].uid, players |-> Len(before[i].players),
            age |-> t - before[i].createdAt ] :
          i \in { j \in DOMAIN before : before[j].uid \notin kept } }

\* the session objects that are not the same, or not there, in before and after
Touched(before, after) ==
    LET old == { before[i] : i \in DOMAIN before }
        new == { after[i] : i \in DOMAIN after }
    IN  { s.uid : s \in (old \ new) \cup (new \ old) }

\* ------------------------------------------------------------ socket.on("find")
\* `!data.name`: the falsy values among the inputs
\* the validation with the typeof test forgotten
InvalidNameFalsyOnly(v) ==
    \/ v.type = "string" /\ v.str = ""
    \/ v.type = "number" /\ v.str = "0"
    \/ v.type = "undefined"

Falsy(v) ==
    \/ v.type = "string" /\ v.str = ""
    \/ v.type = "number" /\ v.str = "0"
    \/ v.type = "undefined"

InvalidName(v) == Falsy(v) \/ v.type # "string"

\* the search that only takes a session with no player yet
OpenIndexEmptyOnly(ss) ==
    FirstIndex({ i \in DOMAIN ss : Len(ss[i].players) < 1 })

\* sessions.find(s => s.players.length < PLAYERS_PER_SESSION), as an index
OpenIndex(ss) ==
    FirstIndex({ i \in DOMAIN ss : Len(ss[i].players) < PLAYERS_PER_SESSION })

FindError(ss, msg) ==
    [ sessions |-> ss, error |-> msg, emit |-> "error", id |-> -1, uid |-> 0 ]

\* the handler with the capacity test off by one and the player pushed directly
findHandlerOverfill(ss, sock, name, t, uid) ==
    IF InvalidName(name)
    THEN FindError(ss, "Invalid player name")
    ELSE LET i == FirstIndex({ j \in DOMAIN ss :
                                Len(ss[j].players) <= PLAYERS_PER_SESSION })
             made == IF i = 0 THEN createSession(ss, uid, t)
                     ELSE [ error |-> "", sessions |-> ss ]
             k == IF i = 0 THEN Len(made.sessions) ELSE i
             s1 == [ made.sessions[k] EXCEPT
                       !.players = Append(@, [ name |-> name.str, socketId |-> sock ]) ]
             after == ReplaceAt(made.sessions, k, s1)
         IN  IF Len(s1.players) = PLAYERS_PER_SESSION
             THEN [ sessions |-> after, error |-> "", emit |-> "find",
                    id |-> indexOf(after, s1.uid) - 1, uid |-> s1.uid ]
             ELSE [ sessions |-> after, error |-> "", emit |-> "none",
                    id |-> -1, uid |-> s1.uid ]

findHandler(ss, sock, name, t, uid) ==
    IF InvalidName(name)
    THEN FindError(ss, "Invalid player name")
    ELSE LET i == OpenIndex(ss)
             made == IF i = 0 THEN createSession(ss, uid, t)
                     ELSE [ error |-> "", sessions |-> ss ]
         IN  IF made.error # ""
             THEN FindError(made.sessions, made.error)
             ELSE LET k == IF i = 0 THEN Len(made.sessions) ELSE i
                      added == addPlayer(made.sessions[k],
                                         [ name |-> name.str, socketId |-> sock ])
                      after == ReplaceAt(made.sessions, k, added.session)
                  IN  IF added.error # ""
                      THEN FindError(made.sessions, added.error)
                      ELSE IF Len(added.session.players) = PLAYERS_PER_SESSION
                           THEN [ sessions |-> after, error |-> "", emit |-> "find",
                                  id |-> indexOf(after, added.session.uid) - 1,
                                  uid |-> added.session.uid ]
                           ELSE [ sessions |-> after, error |-> "", emit |-> "none",
                                  id |-> -1, uid |-> added.session.uid ]

\* -------------------------------------------------------- socket.on("getScore")
\* the lookup with ids counted from one
ResolveOneBased(ss, sessionId) == IF sessionId \in DOMAIN ss THEN sessionId ELSE 0

\* sessionManager.sessions[data.sessionId], as an index; 0 stands for undefined
Resolve(ss, sessionId) == IF (sessionId + 1) \in DOMAIN ss THEN sessionId + 1 ELSE 0

\* playersScore.map(player => ({name, score}))
ScorePayload(entries) ==
    [ j \in DOMAIN entries |-> [ name |-> entries[j].name, score |-> entries[j].score ] ]

getScoreHandler(ss, data) ==
    LET i == Resolve(ss, data.sessionId)
    IN  IF i = 0
        THEN [ sessions |-> ss, status |-> "error", emit |-> "none", scores |-> << >>,
               uid |-> 0 ]
        ELSE LET s1 == [ ss[i] EXCEPT !.playersScore =
                            Append(@, [ name |-> data.name, score |-> data.score ]) ]
                 pushed == ReplaceAt(ss, i, s1)
             IN  IF Len(s1.playersScore) = PLAYERS_PER_SESSION
                 THEN LET sessionIndex == indexOf(pushed, s1.uid)
                      IN  [ sessions |-> IF sessionIndex # 0
                                         THEN RemoveAt(pushed, sessionIndex)
                                         ELSE pushed,
                            status |-> "success", emit |-> "getScore",
                            scores |-> ScorePayload(s1.playersScore), uid |-> s1.uid ]
                 ELSE [ sessions |-> pushed, status |-> "success", emit |-> "none",
                        scores |-> << >>, uid |-> s1.uid ]

\* ------------------------------------------------------ socket.on('disconnect')
\* the lookup that takes the first player of the session for the one that left
PlayerIndexFirst(s, sock) ==
    IF \E i \in DOMAIN s.players : s.players[i].socketId = sock THEN 1 ELSE 0

PlayerIndex(s, sock) ==
    FirstIndex({ i \in DOMAIN s.players : s.players[i].socketId = sock })

\* the handler with the Filling test off by one (<= for <): a player of a
\* full session is spliced out as well
disconnectHandlerSplice(ss, sock) ==
    LET i == FirstIndex({ j \in DOMAIN ss : PlayerIndex(ss[j], sock) # 0 })
    IN  IF i = 0
        THEN [ sessions |-> ss, uid |-> 0 ]
        ELSE [ sessions |->
                   ReplaceAt(ss, i, [ ss[i] EXCEPT
                                        !.players = RemoveAt(@, PlayerIndex(ss[i], sock)) ]),
               uid |-> ss[i].uid ]

\* the handler without the splice of a session all of whose players have left
disconnectHandlerKeep(ss, sock) ==
    LET i == FirstIndex({ j \in DOMAIN ss : PlayerIndex(ss[j], sock) # 0 })
    IN  IF i = 0
        THEN [ sessions |-> ss, uid |-> 0 ]
        ELSE LET s == ss[i]
                 playerIndex == PlayerIndex(s, sock)
             IN  IF Len(s.players) < PLAYERS_PER_SESSION
                 THEN [ sessions |->
                            ReplaceAt(ss, i, [ s EXCEPT !.players = RemoveAt(@, playerIndex) ]),
                        uid |-> s.uid ]
                 ELSE [ sessions |->
                            ReplaceAt(ss, i,
                                [ s EXCEPT
                                    !.playersScore =
                                        Append(@, [ name |-> s.players[playerIndex].name,
                                                    score |-> 0 ]),
                                    !.disconnectedPlayersCount = @ + 1 ]),
                        uid |-> s.uid ]

disconnectHandler(ss, sock) ==
    LET i == FirstIndex({ j \in DOMAIN ss : PlayerIndex(ss[j], sock) # 0 })
    IN  IF i = 0
        THEN [ sessions |-> ss, uid |-> 0 ]
        ELSE LET s == ss[i]
                 playerIndex == PlayerIndex(s, sock)
             IN  IF Len(s.players) < PLAYERS_PER_SESSION
                 THEN [ sessions |->
                            ReplaceAt(ss, i, [ s EXCEPT !.players = RemoveAt(@, playerIndex) ]),
                        uid |-> s.uid ]
                 ELSE LET s1 == [ s EXCEPT
                                    !.playersScore =
                                        Append(@, [ name |-> s.players[playerIndex].name,
                                                    score |-> 0 ]),
                                    !.disconnectedPlayersCount = @ + 1 ]
                          pushed == ReplaceAt(ss, i, s1)
                      IN  IF s1.disconnectedPlayersCount = PLAYERS_PER_SESSION
                          THEN [ sessions |-> RemoveAt(pushed, indexOf(pushed, s1.uid)),
                                 uid |-> s.uid ]
                          ELSE [ sessions |-> pushed, uid |-> s.uid ]

\* ---------------------------------------------------------------- the state
SessionOf(ss, uid) == ss[indexOf(ss, uid)]

Init ==
    /\ sessions = << >>
    /\ now = 0
    /\ connected = {}
    /\ nextSocket = 0
    /\ nextUid = 1
    /\ ticks = 0
    /\ joins = 0
    /\ submits = 0
    /\ findCount = << >>
    /\ scoreCount = << >>
    /\ announced = {}
    /\ scored = {}
    /\ swept = {}
    /\ last = NoEvent

\* io.on('connection'): a new socket with a fresh id
Connect ==
    /\ nextSocket < MaxSockets
    /\ nextSocket' = nextSocket + 1
    /\ connected' = connected \cup {nextSocket + 1}
    /\ last' = [ NoEvent EXCEPT !.op = "connection" ]
    /\ UNCHANGED << sessions, now, nextUid, ticks, joins, submits, findCount, scoreCount,
                    announced, scored, swept >>

\* a connected socket sends "find"
Find ==
    \E sock \in connected :
      \E name \in NameInputs(sock) :
        LET r == findHandler(sessions, sock, name, now, nextUid)
            created == Len(r.sessions) > Len(sessions)
        IN  /\ created => (nextUid <= MaxCreated \/ Len(sessions) >= MAX_SESSIONS - 1)
            /\ ~InvalidName(name) => joins < MaxJoins
            /\ joins' = IF InvalidName(name) THEN joins ELSE joins + 1
            /\ sessions' = r.sessions
            /\ nextUid' = IF created THEN nextUid + 1 ELSE nextUid
            /\ findCount' =
                   LET fc == IF created THEN Append(findCount, 0) ELSE findCount
                   IN  IF r.emit = "find" THEN [ fc EXCEPT ![r.uid] = @ + 1 ] ELSE fc
            /\ scoreCount' = IF created THEN Append(scoreCount, 0) ELSE scoreCount
            /\ announced' = IF r.emit = "find" THEN announced \cup { << r.id, r.uid >> }
                            ELSE announced
            /\ last' = [ NoEvent EXCEPT !.op = "find", !.uid = r.uid,
                                        !.emit = r.emit, !.id = r.id,
                                        !.invalid = name \in BadNames,
                                        !.touched = Touched(sessions, r.sessions) ]
            /\ UNCHANGED << now, connected, nextSocket, ticks, submits, scored, swept >>

\* a connected socket sends "getScore", with or without an acknowledgement callback
GetScore ==
    \E sessionId \in SessionIds, name \in ScoreNames, score \in ScoreValues,
       callback \in BOOLEAN :
        LET data == [ sessionId |-> sessionId, name |-> name, score |-> score ]
            i == Resolve(sessions, sessionId)
            r == getScoreHandler(sessions, data)
        IN  /\ connected # {}
            /\ i # 0 => submits < MaxSubmits
            /\ submits' = IF i # 0 THEN submits + 1 ELSE submits
            /\ sessions' = r.sessions
            /\ scoreCount' = IF r.emit = "getScore"
                             THEN [ scoreCount EXCEPT ![r.uid] = @ + 1 ]
                             ELSE scoreCount
            /\ scored' = IF r.emit = "getScore" THEN scored \cup {sessionId} ELSE scored
            /\ last' = [ NoEvent EXCEPT
                           !.op = "getScore", !.uid = r.uid,
                           !.emit = r.emit, !.id = sessionId, !.scores = r.scores,
                           !.players = IF r.emit = "getScore" THEN sessions[i].players
                                       ELSE << >>,
                           !.status = r.status,
                           !.ack = IF callback THEN r.status ELSE "none",
                           !.wasScored = sessionId \in scored,
                           !.wasFull = i # 0 /\ Len(sessions[i].players) = PLAYERS_PER_SESSION,
                           !.len = IF i # 0 THEN Len(sessions[i].playersScore) + 1 ELSE 0,
                           !.removed = Removed(sessions, r.sessions, now),
                           !.touched = Touched(sessions, r.sessions) ]
            /\ UNCHANGED << now, connected, nextSocket, nextUid, ticks, joins,
                            findCount, announced, swept >>

\* the transport reports that a connected socket has closed
Disconnect ==
    \E sock \in connected :
        LET r == disconnectHandler(sessions, sock)
            before == IF r.uid # 0 THEN SessionOf(sessions, r.uid) ELSE GameSession(0, 0)
            full == r.uid # 0 /\ Len(before.players) = PLAYERS_PER_SESSION
        IN  /\ sessions' = r.sessions
            /\ connected' = connected \ {sock}
            /\ last' = [ NoEvent EXCEPT
                           !.op = "disconnect", !.uid = r.uid,
                           !.wasFull = full,
                           !.len = IF full THEN Len(before.playersScore) + 1 ELSE 0,
                           !.removed = Removed(sessions, r.sessions, now),
                           !.touched = Touched(sessions, r.sessions) ]
            /\ UNCHANGED << now, nextSocket, nextUid, ticks, joins, submits,
                            findCount, scoreCount, announced, scored, swept >>

\* time passes between two events
Tick ==
    \E d \in TickSteps :
        /\ ticks < MaxTicks
        /\ ticks' = ticks + 1
        /\ now' = now + d
        /\ last' = [ NoEvent EXCEPT !.op = "tick" ]
        /\ UNCHANGED << sessions, connected, nextSocket, nextUid, joins, submits,
                        findCount, scoreCount, announced, scored, swept >>

\* the setInterval callback of the SessionManager fires
Cleanup ==
    /\ sessions' = cleanup(sessions, now)
    /\ swept' = swept \cup Removed(sessions, sessions', now)
    /\ last' = [ NoEvent EXCEPT !.op = "cleanup",
                                !.removed = Removed(sessions, sessions', now),
                                !.touched = Touched(sessions, sessions') ]
    /\ UNCHANGED << now, connected, nextSocket, nextUid, ticks, joins, submits,
                    findCount, scoreCount, announced, scored >>

Next ==
    \/ Connect
    \/ Find
    \/ GetScore
    \/ Disconnect
    \/ Tick
    \/ Cleanup

Spec == Init /\ [][Next]_vars

\* A table of players: PLAYERS_PER_SESSION sockets have connected and no event
\* of theirs was handled yet; they join, submit and leave within the timeout.
InitCrowd ==
    /\ sessions = << >>
    /\ now = 0
    /\ connected = 1 .. PLAYERS_PER_SESSION
    /\ nextSocket = PLAYERS_PER_SESSION
    /\ nextUid = 1
    /\ ticks = 0
    /\ joins = 0
    /\ submits = 0
    /\ findCount = << >>
    /\ scoreCount = << >>
    /\ announced = {}
    /\ scored = {}
    /\ swept = {}
    /\ last = [ NoEvent EXCEPT !.op = "connection" ]

\* a socket of the table sends "find" with its name while it is a player of
\* no session
FindCrowd ==
    /\ Find
    /\ ~last'.invalid
    /\ \A sock \in connected :
           Cardinality({ << i, k >> \in (DOMAIN sessions') \X (1 .. PLAYERS_PER_SESSION) :
                           /\ k \in DOMAIN sessions'[i].players
                           /\ sessions'[i].players[k].socketId = sock }) <= 1

\* a client of the table sends "getScore" for a session of the array, with a
\* callback
GetScoreCrowd ==
    /\ GetScore
    /\ last'.ack = "success"

NextCrowd ==
    \/ FindCrowd
    \/ GetScoreCrowd
    \/ Disconnect

SpecCrowd == InitCrowd /\ [][NextCrowd]_vars

\* A busy server: socket 1 has sent "find" 4 * (MAX_SESSIONS - 1) times since
\* the start, so the array holds MAX_SESSIONS - 1 full sessions and the last
\* event was the broadcast for the newest of them.
InitCap ==
    /\ sessions = [ u \in 1 .. (MAX_SESSIONS - 1) |->
                      [ GameSession(u, 0) EXCEPT
                          !.players = [ k \in 1 .. PLAYERS_PER_SESSION |->
                                          [ name |-> NameOf(1).str, socketId |-> 1 ] ] ] ]
    /\ now = 0
    /\ connected = {1}
    /\ nextSocket = 1
    /\ nextUid = MAX_SESSIONS
    /\ ticks = 0
    /\ joins = 0
    /\ submits = 0
    /\ findCount = [ u \in 1 .. (MAX_SESSIONS - 1) |-> 1 ]
    /\ scoreCount = [ u \in 1 .. (MAX_SESSIONS - 1) |-> 0 ]
    /\ announced = { << u - 1, u >> : u \in 1 .. (MAX_SESSIONS - 1) }
    /\ scored = {}
    /\ swept = {}
    /\ last = [ NoEvent EXCEPT !.op = "find", !.uid = MAX_SESSIONS - 1,
                               !.emit = "find", !.id = MAX_SESSIONS - 2,
                               !.touched = {MAX_SESSIONS - 1} ]

\* the events of socket 1 and of the timer; no other socket connects
NextCap ==
    \/ Find
    \/ GetScore
    \/ Disconnect
    \/ Tick
    \/ Cleanup

SpecCap == InitCap /\ [][NextCap]_vars

\* One client and the timer, with the clock running on: socket 1 has connected;
\* time passes as long as a session of the array has not reached its timeout,
\* and the setInterval callback keeps firing.
InitLive ==
    /\ sessions = << >>
    /\ now = 0
    /\ connected = {1}
    /\ nextSocket = 1
    /\ nextUid = 1
    /\ ticks = 0
    /\ joins = 0
    /\ submits = 0
    /\ findCount = << >>
    /\ scoreCount = << >>
    /\ announced = {}
    /\ scored = {}
    /\ swept = {}
    /\ last = [ NoEvent EXCEPT !.op = "connection" ]

\* time passes between two events, while a session is younger than its timeout
TickLive ==
    \E d \in TickSteps :
        /\ \E i \in DOMAIN sessions : ~isExpired(sessions[i], now)
        /\ now' = now + d
        /\ last' = [ NoEvent EXCEPT !.op = "tick" ]
        /\ UNCHANGED << sessions, connected, nextSocket, nextUid, ticks, joins, submits,
                        findCount, scoreCount, announced, scored, swept >>

NextLive ==
    \/ Find
    \/ GetScore
    \/ Disconnect
    \/ TickLive
    \/ Cleanup

\* Date.now() moves on and the interval timer of the SessionManager is never
\* cleared, so both keep happening
SpecLive ==
    /\ InitLive
    /\ [][NextLive]_vars
    /\ WF_vars(TickLive)
    /\ WF_vars(Cleanup)

\* ------------------------------------------------------------------ claims
Uids == 1 .. (nextUid - 1)
RemovedUids == { r.uid : r \in last.removed }
NamesOf(seq) == [ j \in DOMAIN seq |-> seq[j].name ]
Count(seq, x) == Cardinality({ j \in DOMAIN seq : seq[j] = x })
SameNames(a, b) ==
    \A n \in { a[j] : j \in DOMAIN a } \cup { b[j] : j \in DOMAIN b } :
        Count(a, n) = Count(b, n)

\* C1: every session that reached PLAYERS_PER_SESSION players (its "find"
\* broadcast was sent) gets its "getScore" broadcast at most once, and exactly
\* once by the time it has left the sessions array.
C1_ScoresReadyExactlyOnce ==
    \A u \in Uids :
        findCount[u] >= 1 =>
            /\ scoreCount[u] <= 1
            /\ u \notin LiveUids(sessions) => scoreCount[u] = 1

\* C2: a sessionId sent in the "find" broadcast of a session resolves, at every
\* later moment, to that same session or to no session.
C2_AnnouncedIdNeverReused ==
    \A a \in announced :
        LET i == Resolve(sessions, a[1])
        IN  i = 0 \/ sessions[i].uid = a[2]

\* C3: a "getScore" event whose sessionId was already sent in a "getScore"
\* broadcast fails with "Invalid session" and touches no session.
C3_ScoredIdIsUnknown ==
    (last.op = "getScore" /\ last.wasScored) =>
        (last.status = "error" /\ last.uid = 0 /\ last.emit = "none")

\* C4: a "getScore" broadcast carries PLAYERS_PER_SESSION entries, one for each
\* player of the session it is about: the names of the entries are the names of
\* the session's players, each as often as it occurs among the players.
C4_OneEntryPerPlayer ==
    last.emit = "getScore" =>
        /\ Len(last.scores) = PLAYERS_PER_SESSION
        /\ Len(last.players) = PLAYERS_PER_SESSION
        /\ SameNames(NamesOf(last.scores), NamesOf(last.players))

\* C5: a disconnect whose zero score brings playersScore.length of a full
\* session to PLAYERS_PER_SESSION emits the "getScore" broadcast and removes
\* the session in that same step.
C5_DisconnectCompletes ==
    (last.op = "disconnect" /\ last.wasFull /\ last.len = PLAYERS_PER_SESSION) =>
        (last.emit = "getScore" /\ last.uid \in RemovedUids)

\* C6: every session in the sessions array has between 0 and
\* PLAYERS_PER_SESSION players.
C6_PlayersWithinCapacity ==
    \A i \in DOMAIN sessions :
        Len(sessions[i].players) >= 0 /\ Len(sessions[i].players) <= PLAYERS_PER_SESSION

\* a fifth join arrived while a session was full and went to a second session
C6_Witness ==
    /\ last.op = "find" /\ last.uid # 0
    /\ Len(sessions) = 2
    /\ Len(sessions[1].players) = PLAYERS_PER_SESSION
    /\ last.uid = sessions[2].uid

\* C7: the "find" broadcast is sent exactly once per session that fills, by the
\* "find" handler whose push brings players.length to PLAYERS_PER_SESSION, and
\* by no other handler: a session in the array has had one broadcast when it
\* holds PLAYERS_PER_SESSION players and none otherwise, a "find" handler
\* broadcasts exactly when the session it pushed into is full, and no other
\* handler broadcasts "find".
C7_SessionFullExactlyOnce ==
    /\ \A u \in Uids : findCount[u] <= 1
    /\ \A i \in DOMAIN sessions :
           findCount[sessions[i].uid] =
               IF Len(sessions[i].players) = PLAYERS_PER_SESSION THEN 1 ELSE 0
    /\ last.emit = "find" => (last.op = "find" /\ last.uid \in LiveUids(sessions))
    /\ (last.op = "find" /\ last.uid # 0) =>
           (last.emit = "find" <=>
                Len(SessionOf(sessions, last.uid).players) = PLAYERS_PER_SESSION)

\* the only session ever created lost a player while filling and was then
\* filled by the fifth join, which broadcast
C7_Witness ==
    /\ last.op = "find" /\ last.emit = "find"
    /\ nextUid = 2 /\ joins = 5
    /\ findCount[last.uid] = 1

\* C8: a "getScore" broadcast for a session comes after that session's "find"
\* broadcast, and a submission resolved to a session that is not full removes
\* no session.
C8_ClosedOnlyFromFull ==
    /\ last.emit = "getScore" => findCount[last.uid] >= 1
    /\ (last.op = "getScore" /\ ~last.wasFull) => last.removed = {}

\* C9: cleanup removes no session that holds PLAYERS_PER_SESSION players,
\* however old; what it removes is older than SESSION_TIMEOUT and still filling.
C9_SweepSparesFull ==
    last.op = "cleanup" =>
        \A r \in last.removed :
            r.players < PLAYERS_PER_SESSION /\ r.age > SESSION_TIMEOUT

\* C10: after a cleanup no session that is still filling is older than
\* SESSION_TIMEOUT, a session cleanup removed is never in the array again, and
\* no "find" handler pushes a player into one.
C10_ExpiredFillingIsSwept ==
    /\ last.op = "cleanup" =>
           \A i \in DOMAIN sessions :
               Len(sessions[i].players) < PLAYERS_PER_SESSION =>
                   now - sessions[i].createdAt <= SESSION_TIMEOUT
    /\ \A r \in swept : r.uid \notin LiveUids(sessions)
    /\ last.op = "find" => \A r \in swept : r.uid # last.uid

\* a session was swept while filling, and a later join went into another session
C10_Witness ==
    /\ last.op = "find" /\ last.uid # 0
    /\ \E r \in swept : r.players < PLAYERS_PER_SESSION /\ r.players > 0

\* C11: every socket id is among the players of at most one session of the
\* array, whatever "find" and disconnect events were handled (a socket may
\* send "find" more than once).
C11_ConnectionInOneSession ==
    \A sock \in 1 .. nextSocket :
        Cardinality({ i \in DOMAIN sessions :
                        \E k \in DOMAIN sessions[i].players :
                            sessions[i].players[k].socketId = sock }) <= 1

\* C12: every session of the array has at most PLAYERS_PER_SESSION score
\* entries and at most one score entry per player: no more entries under the
\* name of a player than players of that name.
C12_ScoresWithinCapacity ==
    \A i \in DOMAIN sessions :
        /\ Len(sessions[i].playersScore) <= PLAYERS_PER_SESSION
        /\ \A n \in { sessions[i].players[j].name : j \in DOMAIN sessions[i].players } :
               Count(NamesOf(sessions[i].playersScore), n)
                   <= Count(NamesOf(sessions[i].players), n)

\* C13: a "find" event whose data.name is empty or not a string emits "error"
\* to the sending socket and nothing to the others, and creates, changes and
\* removes no session.
C13_InvalidJoinChangesNothing ==
    (last.op = "find" /\ last.invalid) =>
        (last.emit = "error" /\ last.uid = 0 /\ last.touched = {})

\* an invalid join was refused while a session was waiting for players
C13_Witness ==
    /\ last.op = "find" /\ last.invalid /\ last.emit = "error"
    /\ \E i \in DOMAIN sessions :
           Len(sessions[i].players) \in 1 .. (PLAYERS_PER_SESSION - 1)

\* C15: a "getScore" event whose data.sessionId is not an index of the sessions
\* array is answered with status "error" (to the callback, when there is one),
\* emits nothing to the other sockets and leaves every session as it was.
C15_UnknownSessionChangesNothing ==
    [][ (last'.op = "getScore" /\ (last'.id + 1) \notin DOMAIN sessions) =>
            /\ last'.status = "error"
            /\ last'.ack \in {"error", "none"}
            /\ last'.emit = "none"
            /\ sessions' = sessions ]_vars

\* the callback of a submission with an unknown id got the error while
\* sessions were in the array
C15_Witness ==
    /\ last.op = "getScore" /\ last.status = "error" /\ last.ack = "error"
    /\ last.emit = "none" /\ last.touched = {}
    /\ (last.id + 1) \notin DOMAIN sessions
    /\ sessions # << >>

\* C16: a session whose players array is empty (its only player disconnected
\* while it was filling; a session is created with its first player) is not
\* the session the next "find" joins and is not the session of the next
\* io.emit.
C16_EmptiedSessionIsDead ==
    [][ \A i \in DOMAIN sessions :
            Len(sessions[i].players) = 0 =>
                ~ /\ last'.uid = sessions[i].uid
                  /\ \/ last'.op = "find"
                     \/ last'.emit \in {"find", "getScore"} ]_vars

\* C17: when the socket of a player of a session with PLAYERS_PER_SESSION
\* players disconnects and the step brings neither playersScore.length nor
\* disconnectedPlayersCount to PLAYERS_PER_SESSION, the session stays in the
\* array with one more score entry {name of that player, 0} and
\* disconnectedPlayersCount one higher, its players are unchanged and so is
\* every other session.
C17_DisconnectInFullSession ==
    [][ \A sock \in connected \ connected' :
        \A i \in DOMAIN sessions :
            ( /\ last'.op = "disconnect"
              /\ last'.uid = sessions[i].uid
              /\ Len(sessions[i].players) = PLAYERS_PER_SESSION
              /\ Len(sessions[i].playersScore) + 1 # PLAYERS_PER_SESSION
              /\ sessions[i].disconnectedPlayersCount + 1 # PLAYERS_PER_SESSION )
            => /\ DOMAIN sessions' = DOMAIN sessions
               /\ sessions'[i].playersScore =
                      Append(sessions[i].playersScore,
                             [ name |-> NameOf(sock).str, score |-> 0 ])
               /\ sessions'[i].disconnectedPlayersCount =
                      sessions[i].disconnectedPlayersCount + 1
               /\ sessions'[i].players = sessions[i].players
               /\ sessions'[i].uid = sessions[i].uid
               /\ sessions'[i].createdAt = sessions[i].createdAt
               /\ \A j \in DOMAIN sessions \ {i} : sessions'[j] = sessions[j] ]_vars

\* player "B" of a full session left: the session is still in the array, next
\* to another one, with {B, 0} as its newest score entry
C17_Witness ==
    /\ last.op = "disconnect" /\ last.wasFull
    /\ Len(sessions) = 2
    /\ \E i \in DOMAIN sessions :
           LET s == sessions[i]
           IN  /\ s.uid = last.uid
               /\ Len(s.players) = PLAYERS_PER_SESSION
               /\ s.disconnectedPlayersCount = 1
               /\ s.playersScore # << >>
               /\ s.playersScore[Len(s.playersScore)] = [ name |-> "B", score |-> 0 ]
               /\ s.players[1].name = "A"

\* C20: at most one session of the array has fewer than PLAYERS_PER_SESSION
\* players.
C20_AtMostOneOpenSession ==
    Cardinality({ i \in DOMAIN sessions :
                    Len(sessions[i].players) < PLAYERS_PER_SESSION }) <= 1

\* a player left the filling session that sits behind a full one: the full one
\* kept its players and the filling one is still the only open session
C20_Witness ==
    /\ last.op = "disconnect" /\ ~last.wasFull /\ last.uid # 0
    /\ Len(sessions) = 2
    /\ Len(sessions[1].players) = PLAYERS_PER_SESSION
    /\ sessions[2].uid = last.uid
    /\ Len(sessions[2].players) < PLAYERS_PER_SESSION

\* C18: every session of the array has disconnectedPlayersCount below
\* PLAYERS_PER_SESSION: the disconnect that brings the count of a session to
\* PLAYERS_PER_SESSION splices that session out in the same step.
C18_DisconnectedBelowCapacity ==
    \A i \in DOMAIN sessions :
        sessions[i].disconnectedPlayersCount < PLAYERS_PER_SESSION

\* the last of the four players of a session left and the handler removed the
\* session
C18_Witness ==
    /\ last.op = "disconnect" /\ last.wasFull
    /\ \E r \in last.removed : r.uid = last.uid /\ r.players = PLAYERS_PER_SESSION
    /\ last.uid \notin LiveUids(sessions)
    /\ connected = {}

\* C14: the sessions array never has more than MAX_SESSIONS elements, and a
\* "find" with a valid name that meets MAX_SESSIONS sessions, all of them with
\* PLAYERS_PER_SESSION players, emits "error" to the sending socket only and
\* leaves the array as it was.
C14_SessionsWithinLimit ==
    [][ /\ Len(sessions') <= MAX_SESSIONS
        /\ ( /\ last'.op = "find" /\ ~last'.invalid
             /\ Len(sessions) >= MAX_SESSIONS
             /\ \A i \in DOMAIN sessions :
                    Len(sessions[i].players) >= PLAYERS_PER_SESSION )
           => /\ last'.emit = "error"
              /\ last'.uid = 0
              /\ sessions' = sessions ]_vars

\* a valid join was refused with the array at MAX_SESSIONS full sessions
C14_Witness ==
    /\ last.op = "find" /\ ~last.invalid /\ last.emit = "error"
    /\ last.touched = {}
    /\ Len(sessions) = MAX_SESSIONS
    /\ \A i \in DOMAIN sessions : Len(sessions[i].players) = PLAYERS_PER_SESSION

\* C19: every session that is in the array is later out of it (its scores
\* completed, all its players left, or the cleanup timer found it expired), and
\* a session object that has left the array is never in it again.
C19_EverySessionIsRemovedOnce ==
    /\ \A u \in 1 .. MaxCreated :
           (u \in LiveUids(sessions)) ~> (u \notin LiveUids(sessions))
    /\ [][ \A u \in Uids :
               u \notin LiveUids(sessions) => u \notin LiveUids(sessions') ]_vars

\* every session that was created is gone, the last of them swept by the timer
\* after its timeout
C19_Witness ==
    /\ nextUid > MaxCreated
    /\ sessions = << >>
    /\ last.op = "cleanup"
    /\ \E r \in last.removed : r.age > SESSION_TIMEOUT /\ r.players < PLAYERS_PER_SESSION
    /\ Cardinality(swept) >= 1
====
